---- MODULE Spec2Model ----
(***************************************************************************)
(* Model of the multi-source congestion resolution pipeline of             *)
(* traffic_data.py: the two live clients, the simulator and the            *)
(* orchestrator get_congestion_for_cities.                                 *)
(*                                                                         *)
(* Units.  Percentages and speeds are held in tenths (50.0 % is 500,       *)
(* 25 km/h is 250), so that round(x, 1) is a rounding to an integer.       *)
(* Latitudes and longitudes are held in 1/10000 of a degree.  Floats are   *)
(* modelled by exact rationals; round() rounds half to even.               *)
(***************************************************************************)
EXTENDS Integers, Sequences, FiniteSets, TLC

(***************************************************************************)
(* Bounds of the model.                                                    *)
(***************************************************************************)
MaxCities == 2
MaxSpeed == 50
MaxDuration == 150
MaxCongestion == 1200

(***************************************************************************)
(* Python values.  None and the "N/A" marker are records, numbers are      *)
(* [num |-> n], so that a number and a marker can be compared.             *)
(***************************************************************************)
None == [py |-> "None"]
NA == [py |-> "N/A"]
Absent == [py |-> "absent"]
Num(n) == [num |-> n]
IsNum(v) == DOMAIN v = {"num"}
List(s) == [list |-> s]

TomTomApiLabel == "TomTom Traffic API"
MapmyIndiaApiLabel == "MapmyIndia Route API"
SimulatorLabel == "AI Prediction Model"
LiveLabels == {TomTomApiLabel, MapmyIndiaApiLabel}

(* A variant of HasAPI that looks for "Traffic API". *)
HasTrafficAPI(label) == label = TomTomApiLabel

(* The labels that contain the substring "API" (the test of lines 268, 279). *)
HasAPI(label) == label \in {TomTomApiLabel, MapmyIndiaApiLabel}

Tuple4(c, s, cur, free) ==
    [congestion |-> c, source |-> s, current_speed |-> cur, free_flow_speed |-> free]

Failure(label) == Tuple4(None, label, NA, NA)

(***************************************************************************)
(* Arithmetic.                                                             *)
(***************************************************************************)
Min(a, b) == IF a <= b THEN a ELSE b
Max(a, b) == IF a >= b THEN a ELSE b

(* A variant of Round that cuts the decimals off. *)
RoundDown(num, den) == num \div den

(* round(num/den) to the nearest integer, ties to even; den > 0. *)
Round(num, den) ==
    LET fl == num \div den
        r2 == 2 * (num - fl * den)
    IN  IF r2 < den THEN fl
        ELSE IF r2 > den THEN fl + 1
        ELSE IF fl % 2 = 0 THEN fl ELSE fl + 1

(* A variant of Trunc that rounds down: floor(num/den). *)
Floor(num, den) == num \div den

(* int(num/den): truncation toward zero; den > 0. *)
Trunc(num, den) == IF num >= 0 THEN num \div den ELSE -((-num) \div den)

(* A variant of Clamp without the lower limit. *)
ClampAbove(c) == Min(1000, c)

(* max(0, min(100, congestion)), in tenths of a percent. *)
Clamp(c) == Max(0, Min(1000, c))

(* dict.get(key, default) on a field that is Absent when the key is missing. *)
Get(field, default) == IF field = Absent THEN default ELSE field

(***************************************************************************)
(* What the network can answer to requests.get.                            *)
(***************************************************************************)
(* A flowSegmentData object; a missing key is Absent, a JSON null is None. *)
Flow(c, f) == [currentSpeed |-> c, freeFlowSpeed |-> f]
TomTomFlows ==
    {Flow(Num(250), Num(500)), Flow(Num(600), Num(500)), Flow(Num(-100), Num(500)),
     Flow(Num(0), Num(500)), Flow(Absent, Num(500)), Flow(Num(250), Absent),
     Flow(Num(250), Num(0)), Flow(Num(250), Num(-500)),
     Flow(None, Num(500)), Flow(Num(250), None), Flow(None, Num(0))}
TomTomBodies ==
    {[json |-> FALSE]}
    \cup {[json |-> TRUE, flowSegmentData |-> Absent]}
    \cup {[json |-> TRUE, flowSegmentData |-> fd] : fd \in TomTomFlows}

(* A route object of the routes array; a missing key is Absent. *)
Route(distance, duration) == [distance |-> distance, duration |-> duration]
MapmyIndiaRoutes ==
    {Route(Num(1000), Num(120)), Route(Num(1000), Num(36)), Route(Absent, Num(120)),
     Route(Num(0), Num(120)), Route(Num(1000), Num(0)), Route(Num(1000), Absent)}
MapmyIndiaBodies ==
    {[json |-> FALSE]}
    \cup {[json |-> TRUE, routes |-> Absent]}
    \cup {[json |-> TRUE, routes |-> List(<<>>)]}
    \cup {[json |-> TRUE, routes |-> List(<<rt>>)] : rt \in MapmyIndiaRoutes}

Statuses == {200, 401, 403, 429, 500}
Exceptions == {"Timeout", "ConnectionError", "Exception"}

Http(status, body) == [kind |-> "http", status_code |-> status, body |-> body]
Raised(e) == [kind |-> e]

TomTomResponses ==
    {Http(200, b) : b \in TomTomBodies}
    \cup {Http(s, [json |-> FALSE]) : s \in Statuses \ {200}}
    \cup {Raised(e) : e \in Exceptions}

MapmyIndiaResponses ==
    {Http(200, b) : b \in MapmyIndiaBodies}
    \cup {Http(s, [json |-> FALSE]) : s \in Statuses \ {200}}
    \cup {Raised(e) : e \in Exceptions}

(***************************************************************************)
(* get_traffic_from_tomtom, as a function of what requests.get did.        *)
(***************************************************************************)
TomTomCongestion(current_speed, free_flow_speed) ==
    Clamp(Round(1000 * (free_flow_speed - current_speed), free_flow_speed))

(* A variant of TomTomStatusLabel without the branch for 403. *)
TomTomStatusLabelNo403(status_code) ==
    IF status_code = 401 THEN "TomTom Auth Failed"
    ELSE IF status_code = 429 THEN "TomTom Rate Limited"
    ELSE "TomTom Failed"

(* Lines 67-79: the label for a status other than 200. *)
TomTomStatusLabel(status_code) ==
    IF status_code = 401 THEN "TomTom Auth Failed"
    ELSE IF status_code = 403 THEN "TomTom Forbidden"
    ELSE IF status_code = 429 THEN "TomTom Rate Limited"
    ELSE "TomTom Failed"

get_traffic_from_tomtom(response) ==
    IF response.kind = "Timeout" THEN Failure("TomTom Timeout")
    ELSE IF response.kind = "ConnectionError" THEN Failure("TomTom Connection Failed")
    ELSE IF response.kind = "Exception" THEN Failure("TomTom Error")
    ELSE IF response.status_code = 200 THEN
        IF ~response.body.json THEN Failure("TomTom Error")
        ELSE
            LET flow_data == Get(response.body.flowSegmentData,
                                 [currentSpeed |-> Absent, freeFlowSpeed |-> Absent])
                current_speed == Get(flow_data.currentSpeed, Num(0))
                free_flow_speed == Get(flow_data.freeFlowSpeed, Num(10))
            IN  \* None > 0 and None / number raise TypeError (line 87)
                IF ~IsNum(free_flow_speed) THEN Failure("TomTom Error")
                ELSE IF free_flow_speed.num > 0
                THEN IF ~IsNum(current_speed) THEN Failure("TomTom Error")
                     ELSE Tuple4(Num(TomTomCongestion(current_speed.num,
                                                      free_flow_speed.num)),
                                 TomTomApiLabel, current_speed, free_flow_speed)
                ELSE Failure("TomTom Failed")
    ELSE Failure(TomTomStatusLabel(response.status_code))

(***************************************************************************)
(* get_traffic_from_mapmyindia.  On a 200 answer without a usable route    *)
(* the function runs off its end and returns a bare None, not a tuple.     *)
(***************************************************************************)
AssumedFreeFlow == 500

MapmyIndiaCongestion(distance, duration) ==
    LET speed_num == 36 * distance       \* current_speed = speed_num / duration
    IN  Clamp(Round(1000 * (AssumedFreeFlow * duration - speed_num),
                    AssumedFreeFlow * duration))

(* A variant of MapmyIndiaStatusLabel with the primary's branches. *)
MapmyIndiaStatusLabelAsPrimary(status_code) ==
    IF status_code = 401 THEN "MapmyIndia Auth Failed"
    ELSE IF status_code = 403 THEN "MapmyIndia Forbidden"
    ELSE IF status_code = 429 THEN "MapmyIndia Rate Limited"
    ELSE "MapmyIndia Failed"

(* Lines 147-152: the label for a status other than 200. *)
MapmyIndiaStatusLabel(status_code) ==
    IF status_code = 401 THEN "MapmyIndia Auth Failed" ELSE "MapmyIndia Failed"

get_traffic_from_mapmyindia(response) ==
    IF response.kind # "http" THEN Failure("MapmyIndia Error")
    ELSE IF response.status_code = 200 THEN
        IF ~response.body.json THEN Failure("MapmyIndia Error")
        ELSE IF response.body.routes # Absent /\ Len(response.body.routes.list) > 0 THEN
            LET route == response.body.routes.list[1]
                duration == Get(route.duration, Num(0)).num
                distance == Get(route.distance, Num(1)).num
            IN  IF distance > 0 /\ duration > 0
                THEN Tuple4(Num(MapmyIndiaCongestion(distance, duration)),
                            MapmyIndiaApiLabel,
                            Num(Round(36 * distance, duration)),
                            Num(AssumedFreeFlow))
                ELSE None
        ELSE None
    ELSE Failure(MapmyIndiaStatusLabel(response.status_code))

(***************************************************************************)
(* get_simulated_congestion, as a function of the city and of the hour and *)
(* weekday that datetime.now() gives.                                      *)
(***************************************************************************)
Hours == 0 .. 23
Weekdays == 0 .. 6

RECURSIVE SumOrd(_)
SumOrd(codes) == IF codes = <<>> THEN 0 ELSE Head(codes) + SumOrd(Tail(codes))

Seed(city) == SumOrd(city.ord) + Trunc(city.lat, 100) + Trunc(city.lon, 100)

base_congestion(city) == (Seed(city) % 40) + 20

(* Variants: a rush hour that ends at 10 exclusive, a Sunday of its own. *)
rush_factor_exclusive(hour) ==
    IF 7 <= hour /\ hour < 10 THEN 15
    ELSE IF 17 <= hour /\ hour < 20 THEN 16
    ELSE IF 11 <= hour /\ hour <= 16 THEN 12
    ELSE 8
weekend_factor_sunday(day_of_week) ==
    IF day_of_week = 6 THEN 6 ELSE IF day_of_week = 5 THEN 7 ELSE 10

(* The factors, times 10. *)
rush_factor(hour) ==
    IF 7 <= hour /\ hour <= 10 THEN 15
    ELSE IF 17 <= hour /\ hour <= 20 THEN 16
    ELSE IF 11 <= hour /\ hour <= 16 THEN 12
    ELSE 8

weekend_factor(day_of_week) == IF day_of_week >= 5 THEN 7 ELSE 10

(* The table of city factors, times 100. *)
city_factors ==
    [Mumbai |-> 130, Delhi |-> 125, Bengaluru |-> 140, Chennai |-> 110,
     Pune |-> 115, Hyderabad |-> 110, Kolkata |-> 120, Ahmedabad |-> 105,
     Jaipur |-> 100, Lucknow |-> 95]

city_factor(name) == IF name \in DOMAIN city_factors THEN city_factors[name] ELSE 100

SimulatedCongestion(city, hour, day_of_week) ==
    LET product == base_congestion(city) * rush_factor(hour)
                   * weekend_factor(day_of_week) * city_factor(city.name)
    IN  Round(Min(product, 100 * 10000), 1000)

get_simulated_congestion(city, hour, day_of_week) ==
    LET congestion == SimulatedCongestion(city, hour, day_of_week)
    IN  Tuple4(Num(congestion), SimulatorLabel,
               Num(Round(AssumedFreeFlow * (1000 - congestion), 1000)),
               Num(AssumedFreeFlow))

(***************************************************************************)
(* The inputs of a pass: the city mapping, in its iteration order, and the *)
(* two keys.                                                               *)
(***************************************************************************)
City(name, ord, lat, lon) == [name |-> name, ord |-> ord, lat |-> lat, lon |-> lon]

CityPool ==
    {City("Pune", <<80, 117, 110, 101>>, 185204, 738567),
     City("Mumbai", <<77, 117, 109, 98, 97, 105>>, 190760, 728777),
     City("Kolhapur", <<75, 111, 108, 104, 97, 112, 117, 114>>, 167050, 742433)}

(* A dict has each key once. *)
CityMappings ==
    {m \in UNION {[1 .. n -> CityPool] : n \in 0 .. MaxCities} :
        \A i, j \in DOMAIN m : i # j => m[i].name # m[j].name}

Keys == {"", "key"}

(***************************************************************************)
(* The state of one call of get_congestion_for_cities.                     *)
(*   city_coords, tomtom_key, mapmyindia_key   the arguments               *)
(*   results, api_working, api_source          the values it returns       *)
(*   idx                                       the city the loop is at     *)
(*   congestion, source, current_speed, free_flow_speed                    *)
(*                                             the loop's working values   *)
(*   pc                                        where the call is           *)
(*   attempts    the sources invoked for the city at idx, with the label   *)
(*               each returned, in order (an observer, not read by the     *)
(*               code)                                                     *)
(*   calls       how many times each live client was invoked in the pass   *)
(*               (an observer)                                             *)
(*   probe       one application of a function of the module on its own:   *)
(*               the function, its input and, once applied, its output     *)
(***************************************************************************)
VARIABLES city_coords, tomtom_key, mapmyindia_key, results, api_working,
          api_source, idx, congestion, source, current_speed, free_flow_speed,
          pc, attempts, calls, probe

vars == <<city_coords, tomtom_key, mapmyindia_key, results, api_working,
          api_source, idx, congestion, source, current_speed, free_flow_speed,
          pc, attempts, calls, probe>>

args == <<city_coords, tomtom_key, mapmyindia_key>>
locals == <<congestion, source, current_speed, free_flow_speed>>

NoProbe == [fn |-> "none"]

(* One entry of attempts: the source invoked and what it returned. *)
Attempt(client, result) == [client |-> client, result |-> result]

Init ==
    /\ city_coords \in CityMappings
    /\ tomtom_key \in Keys
    /\ mapmyindia_key \in Keys
    /\ results = <<>>
    /\ api_working = FALSE
    /\ api_source = "None"
    /\ idx = 1
    /\ congestion = None
    /\ source = "Unknown"
    /\ current_speed = NA
    /\ free_flow_speed = NA
    /\ pc = "loop"
    /\ attempts = <<>>
    /\ calls = [tomtom |-> 0, mapmyindia |-> 0]
    /\ probe = NoProbe

(* A variant of BeginCity that keeps the previous city's working values. *)
BeginCityNoReset ==
    /\ pc = "loop"
    /\ idx <= Len(city_coords)
    /\ attempts' = <<>>
    /\ pc' = "tomtom"
    /\ UNCHANGED <<probe, args, results, api_working, api_source, idx, calls, locals>>

(* Lines 252-260: the loop takes the next city and resets its working values. *)
BeginCity ==
    /\ pc = "loop"
    /\ idx <= Len(city_coords)
    /\ congestion' = None
    /\ source' = "Unknown"
    /\ current_speed' = NA
    /\ free_flow_speed' = NA
    /\ attempts' = <<>>
    /\ pc' = "tomtom"
    /\ UNCHANGED <<probe, args, results, api_working, api_source, idx, calls>>

(* Variants of the definitions below, each with one plausible slip: the    *)
(* properties are checked to tell the code from them.                      *)
UseTomTomWithoutKey == TRUE
UseMapmyIndiaAlways == mapmyindia_key # ""
UseSimulationUntried == congestion = None /\ source = "Unknown"
UseSimulationWithoutSecondary == congestion = None /\ mapmyindia_key = ""
NewApiWorkingOfThisCity(live) == live
NewApiSourceKeepFirst(live, label) ==
    IF live /\ ~api_working THEN label ELSE api_source

(* Line 263: if tomtom_key. *)
UseTomTom == tomtom_key # ""

(* Line 273: if congestion is None and mapmyindia_key. *)
UseMapmyIndia == congestion = None /\ mapmyindia_key # ""

(* Line 284: if congestion is None. *)
UseSimulation == congestion = None

(* A variant of IsLive that tests the truth of congestion: 0 counts as none. *)
IsLiveTruthy(r) == r.congestion # None /\ r.congestion # Num(0) /\ HasAPI(r.source)

(* Lines 268 and 279: if congestion is not None and "API" in source. *)
IsLive(r) == r.congestion # None /\ HasAPI(r.source)

(* Lines 269-270 and 280-281: the aggregate status after a live client's answer. *)
NewApiWorking(live) == live \/ api_working
NewApiSource(live, label) == IF live THEN label ELSE api_source

(* A variant of AfterTomTom that asks the primary again after a failure. *)
RetryTomTom(c) == IF c = None THEN "tomtom" ELSE "mapmyindia"

(* Lines 262-273: whatever the primary returned, the secondary's test is next. *)
AfterTomTom(c) == "mapmyindia"

(* Lines 262-270: the primary client, when its key is set. *)
TryTomTom ==
    /\ pc = "tomtom"
    /\ IF UseTomTom
       THEN \E response \in TomTomResponses :
                LET r == get_traffic_from_tomtom(response)
                IN  /\ congestion' = r.congestion
                    /\ source' = r.source
                    /\ current_speed' = r.current_speed
                    /\ free_flow_speed' = r.free_flow_speed
                    /\ api_working' = NewApiWorking(IsLive(r))
                    /\ api_source' = NewApiSource(IsLive(r), "TomTom Traffic API")
                    /\ attempts' = Append(attempts, Attempt("tomtom", r))
                    /\ calls' = [calls EXCEPT !.tomtom = @ + 1]
                    /\ pc' = AfterTomTom(r.congestion)
       ELSE /\ pc' = "mapmyindia"
            /\ UNCHANGED <<locals, api_working, api_source, attempts, calls>>
    /\ UNCHANGED <<probe, args, results, idx>>

(* Lines 272-281: the secondary client, when the primary gave no value and  *)
(* the secondary's key is set.  Unpacking a bare None raises TypeError,     *)
(* which nothing in get_congestion_for_cities catches.                      *)
TryMapmyIndia ==
    /\ pc = "mapmyindia"
    /\ IF UseMapmyIndia
       THEN \E response \in MapmyIndiaResponses :
                LET r == get_traffic_from_mapmyindia(response)
                IN  /\ attempts' = Append(attempts, Attempt("mapmyindia", r))
                    /\ calls' = [calls EXCEPT !.mapmyindia = @ + 1]
                    /\ IF r = None
                       THEN /\ pc' = "raised"
                            /\ UNCHANGED <<locals, api_working, api_source>>
                       ELSE /\ congestion' = r.congestion
                            /\ source' = r.source
                            /\ current_speed' = r.current_speed
                            /\ free_flow_speed' = r.free_flow_speed
                            /\ api_working' = NewApiWorking(IsLive(r))
                            /\ api_source' = NewApiSource(IsLive(r), "MapmyIndia Route API")
                            /\ pc' = "simulation"
       ELSE /\ pc' = "simulation"
            /\ UNCHANGED <<locals, api_working, api_source, attempts, calls>>
    /\ UNCHANGED <<probe, args, results, idx>>

(* Lines 283-288: the simulator, when there is still no value.  now() gives *)
(* any hour and weekday.                                                    *)
Fallback ==
    /\ pc = "simulation"
    /\ IF UseSimulation
       THEN \E r \in {get_simulated_congestion(city_coords[idx], hour, day_of_week) :
                            hour \in Hours, day_of_week \in Weekdays} :
                    /\ congestion' = r.congestion
                    /\ source' = r.source
                    /\ current_speed' = r.current_speed
                    /\ free_flow_speed' = r.free_flow_speed
                    /\ attempts' = Append(attempts, Attempt("simulator", r))
       ELSE UNCHANGED <<locals, attempts>>
    /\ pc' = "append"
    /\ UNCHANGED <<probe, args, results, api_working, api_source, idx, calls>>

(* Lines 290-302: the reading is appended and the loop goes on. *)
Reading(city) ==
    [city |-> city.name, lat |-> city.lat, lon |-> city.lon,
     congestion |-> congestion, source |-> source,
     current_speed |-> current_speed, free_flow_speed |-> free_flow_speed]

AppendResult ==
    /\ pc = "append"
    /\ results' = Append(results, Reading(city_coords[idx]))
    /\ idx' = idx + 1
    /\ pc' = "loop"
    /\ UNCHANGED <<probe, args, api_working, api_source, locals, attempts, calls>>

(* Lines 304-313: after the last city the three values are returned. *)
Return ==
    /\ pc = "loop"
    /\ idx > Len(city_coords)
    /\ pc' = "done"
    /\ UNCHANGED <<probe, args, results, api_working, api_source, idx, locals, attempts,
                   calls>>

Next == BeginCity \/ TryTomTom \/ TryMapmyIndia \/ Fallback \/ AppendResult \/ Return

Spec == Init /\ [][Next]_vars

(***************************************************************************)
(* The functions on their own: one input is drawn, the function is applied *)
(* to it once, and probe keeps the input next to the output.  The          *)
(* orchestrator does not run (pc = "pure").                                *)
(***************************************************************************)
Probe(fn, input) == [fn |-> fn, input |-> input]
Applied(fn) == probe.fn = fn /\ "out" \in DOMAIN probe
Pending(fn) == pc = "pure" /\ probe.fn = fn /\ "out" \notin DOMAIN probe

(* Speeds of a flow segment, in km/h: also negative and above free flow. *)
SpeedPairs ==
    {[current_speed |-> c, free_flow_speed |-> f] :
        c \in -MaxSpeed .. 2 * MaxSpeed, f \in 1 .. MaxSpeed}

(* Routes of the secondary, in metres and seconds. *)
RouteTimes ==
    {[distance |-> d, duration |-> t] :
        d \in {1, 500, 1000, 1414, 2500}, t \in 1 .. MaxDuration}

(***************************************************************************)
(* utils.py.  A quotient is kept as a fraction num/den with den > 0; the   *)
(* congestion passed in is in tenths of a percent.                         *)
(***************************************************************************)
Frac(num, den) == [num |-> num, den |-> den]
Less(x, y) == x.num * y.den < y.num * x.den

(* max(a, b) and min(a, b) of Python: the first argument unless the second *)
(* is greater, or less.                                                    *)
PyMax(a, b) == IF Less(a, b) THEN b ELSE a
PyMin(a, b) == IF Less(b, a) THEN b ELSE a

(* A variant of normalize_congestion that forgets the lower limit. *)
normalize_congestion_unbounded_below(percent) ==
    PyMin(Frac(percent, 10 * 100), Frac(1, 1))

(* Line 16: min(max(congestion / 100, 0), 1.0), for the congestion percent. *)
normalize_congestion(percent) ==
    PyMin(PyMax(Frac(percent, 10 * 100), Frac(0, 1)), Frac(1, 1))

(* Congestion values handed to normalize_congestion, in pairs a <= b. *)
CongestionPairs ==
    {[congestion |-> a, other |-> a + d] :
        a \in -MaxCongestion .. MaxCongestion, d \in {0, 1, 25, 1000}}

(* Cities for the simulator: the mapping of app.py and three places with a *)
(* negative coordinate.                                                    *)
SimCities ==
    CityPool \cup
    {City("Latur", <<76, 97, 116, 117, 114>>, 184070, 765604),
     City("Delhi", <<68, 101, 108, 104, 105>>, 286139, 772090),
     City("Lucknow", <<76, 117, 99, 107, 110, 111, 119>>, 268467, 809462),
     City("Jaipur", <<74, 97, 105, 112, 117, 114>>, 269124, 757873),
     City("Ahmedabad", <<65, 104, 109, 101, 100, 97, 98, 97, 100>>, 230225, 725714),
     City("Bengaluru", <<66, 101, 110, 103, 97, 108, 117, 114, 117>>, 129716, 775946),
     City("Chennai", <<67, 104, 101, 110, 110, 97, 105>>, 130827, 802707),
     City("Hyderabad", <<72, 121, 100, 101, 114, 97, 98, 97, 100>>, 173850, 784867),
     City("Kolkata", <<75, 111, 108, 107, 97, 116, 97>>, 225726, 883639),
     City("Lima", <<76, 105, 109, 97>>, -120464, -770428),
     City("Quito", <<81, 117, 105, 116, 111>>, -1807, -784678),
     City("Sydney", <<83, 121, 100, 110, 101, 121>>, -335000, 1512500)}

(* A reading of datetime.now(): weekday() (0 is Monday), hour and minute. *)
Now(day_of_week, hour, minute) ==
    [day_of_week |-> day_of_week, hour |-> hour, minute |-> minute]

(* The simulator is applied at a first reading of the clock and again at a *)
(* second one, in the same hour or in the next, on any weekday.            *)
SimInputs ==
    {[city |-> c, now |-> Now(d1, h, 0), later |-> Now(d2, (h + dh) % 24, m)] :
        c \in SimCities, d1 \in Weekdays, h \in Hours,
        d2 \in Weekdays, dh \in {0, 1}, m \in {0, 59}}

PureInputs ==
    {Probe("simulator", i) : i \in SimInputs}
    \cup {Probe("tomtom", r) : r \in TomTomResponses}
    \cup {Probe("mapmyindia", r) : r \in MapmyIndiaResponses}
    \cup {Probe("speeds", sp) : sp \in SpeedPairs}
    \cup {Probe("route", rt) : rt \in RouteTimes}
    \cup {Probe("normalize", cp) : cp \in CongestionPairs}

PureInit ==
    /\ city_coords = <<>>
    /\ tomtom_key = ""
    /\ mapmyindia_key = ""
    /\ results = <<>>
    /\ api_working = FALSE
    /\ api_source = "None"
    /\ idx = 1
    /\ congestion = None
    /\ source = "Unknown"
    /\ current_speed = NA
    /\ free_flow_speed = NA
    /\ pc = "pure"
    /\ attempts = <<>>
    /\ calls = [tomtom |-> 0, mapmyindia |-> 0]
    /\ probe \in PureInputs

orchestrator == <<args, results, api_working, api_source, idx, locals, pc, attempts,
                  calls>>

ApplyTomTom ==
    /\ Pending("tomtom")
    /\ probe' = [fn |-> probe.fn, input |-> probe.input,
                 out |-> get_traffic_from_tomtom(probe.input)]
    /\ UNCHANGED orchestrator

ApplyMapmyIndia ==
    /\ Pending("mapmyindia")
    /\ probe' = [fn |-> probe.fn, input |-> probe.input,
                 out |-> get_traffic_from_mapmyindia(probe.input)]
    /\ UNCHANGED orchestrator

(* Lines 49-54 on their own. *)
ApplyTomTomCongestion ==
    /\ Pending("speeds")
    /\ probe' = [fn |-> probe.fn, input |-> probe.input,
                 out |-> TomTomCongestion(probe.input.current_speed,
                                          probe.input.free_flow_speed)]
    /\ UNCHANGED orchestrator

(* Lines 129-138 on their own. *)
ApplyMapmyIndiaCongestion ==
    /\ Pending("route")
    /\ probe' = [fn |-> probe.fn, input |-> probe.input,
                 out |-> MapmyIndiaCongestion(probe.input.distance,
                                              probe.input.duration)]
    /\ UNCHANGED orchestrator

(* Lines 171-226 on their own, with the values of the function's locals. *)
ApplySimulator ==
    /\ Pending("simulator")
    /\ LET city == probe.input.city
           now == probe.input.now
           later == probe.input.later
       IN  probe' = [fn |-> probe.fn, input |-> probe.input,
                     out |-> [first |-> get_simulated_congestion(
                                            city, now.hour, now.day_of_week),
                              second |-> get_simulated_congestion(
                                            city, later.hour, later.day_of_week),
                              seed |-> Seed(city),
                              base_congestion |-> base_congestion(city),
                              rush_factor |-> rush_factor(now.hour),
                              weekend_factor |-> weekend_factor(now.day_of_week),
                              city_factor |-> city_factor(city.name)]]
    /\ UNCHANGED orchestrator

(* utils.py line 16, applied to both values of a pair. *)
ApplyNormalize ==
    /\ Pending("normalize")
    /\ probe' = [fn |-> probe.fn, input |-> probe.input,
                 out |-> [first |-> normalize_congestion(probe.input.congestion),
                          second |-> normalize_congestion(probe.input.other)]]
    /\ UNCHANGED orchestrator

PureNext ==
    \/ ApplyNormalize
    \/ ApplySimulator
    \/ ApplyTomTom
    \/ ApplyMapmyIndia
    \/ ApplyTomTomCongestion
    \/ ApplyMapmyIndiaCongestion

PureSpec == PureInit /\ [][PureNext]_vars

(***************************************************************************)
(* Vocabulary of the properties.                                           *)
(***************************************************************************)
Returned == pc = "done"
Propagated == pc = "raised"

(* The reading of the city whose attempts are logged has been emitted. *)
Emitted == pc \in {"loop", "done"} /\ idx > 1
Last == results[idx - 1]

Called(client) == \E k \in DOMAIN attempts : attempts[k].client = client

(* The client was invoked for this city and returned a congestion value. *)
Produced(client) ==
    \E k \in DOMAIN attempts :
        /\ attempts[k].client = client
        /\ attempts[k].result # None
        /\ attempts[k].result.congestion # None

(* The failure labels the live clients returned for this city. *)
FailureLabels ==
    {attempts[k].result.source : k \in {j \in DOMAIN attempts :
        /\ attempts[j].client \in {"tomtom", "mapmyindia"}
        /\ attempts[j].result # None
        /\ attempts[j].result.congestion = None}}

Rank(client) == CASE client = "tomtom" -> 1 [] client = "mapmyindia" -> 2 [] OTHER -> 3

OnePerCityInOrder ==
    /\ Len(results) = Len(city_coords)
    /\ \A i \in DOMAIN results :
        /\ results[i].city = city_coords[i].name
        /\ results[i].lat = city_coords[i].lat
        /\ results[i].lon = city_coords[i].lon

LiveReadings == {i \in DOMAIN results : results[i].source \in LiveLabels}

(***************************************************************************)
(* C1.  Whatever the keys and the clients' outcomes, the call ends by      *)
(* returning a list with exactly one reading per input city, in the order  *)
(* of the mapping.                                                         *)
(* Refuted: the call can end by raising TypeError (see C2), and then       *)
(* returns no list at all.                                                 *)
(***************************************************************************)
C1_OneReadingPerCity ==
    (Returned \/ Propagated) => (Returned /\ OnePerCityInOrder)

(***************************************************************************)
(* C2.  Every failure of a live client is recovered by falling back to the *)
(* next source: after a client call that gave no congestion value the call *)
(* is at the next source, never ended by an exception.                     *)
(* Refuted: get_traffic_from_mapmyindia returns a bare None on a 200       *)
(* answer without a usable route, and unpacking it raises.                 *)
(***************************************************************************)
C2_FailuresRecovered ==
    /\ ~Propagated
    /\ \A k \in DOMAIN attempts :
        (attempts[k].result = None \/ attempts[k].result.congestion = None)
            => \/ Len(attempts) > k
               \/ pc \in {"mapmyindia", "simulation"}

(***************************************************************************)
(* C3.  If the primary key is set and the primary client returned a        *)
(* congestion value for a city, the reading emitted for that city carries  *)
(* the primary's label, congestion and speeds, and no other source was     *)
(* invoked for it.                                                         *)
(***************************************************************************)
C3_PrimaryPrecedence ==
    (Emitted /\ tomtom_key # "" /\ Produced("tomtom")) =>
        /\ Last.source = TomTomApiLabel
        /\ Last.congestion = attempts[1].result.congestion
        /\ Last.current_speed = attempts[1].result.current_speed
        /\ Last.free_flow_speed = attempts[1].result.free_flow_speed
        /\ ~Called("mapmyindia")
        /\ ~Called("simulator")

C3_Witness ==
    /\ Emitted /\ Produced("tomtom") /\ mapmyindia_key # ""
    /\ Last.source = TomTomApiLabel
    /\ Last.congestion = Num(500)

(***************************************************************************)
(* C4.  For each city the sources are invoked in the order primary,        *)
(* secondary, simulator, each exactly under its condition: the primary iff *)
(* its key is set; the secondary iff the primary produced no value and the *)
(* secondary's key is set; the simulator iff no live client produced a     *)
(* value.                                                                  *)
(* Refuted: when the secondary returns a bare None the call raises (C17,   *)
(* C2) and the simulator is not invoked although no live client produced a *)
(* value.                                                                  *)
(***************************************************************************)
PastTomTom == pc \in {"mapmyindia", "simulation", "append", "raised"} \/ Emitted
PastMapmyIndia == pc \in {"simulation", "append", "raised"} \/ Emitted
PastSimulation == pc \in {"append", "raised"} \/ Emitted

C4_SourcesInOrderUnderConditions ==
    /\ \A j, k \in DOMAIN attempts :
        j < k => Rank(attempts[j].client) < Rank(attempts[k].client)
    /\ PastTomTom => (Called("tomtom") <=> tomtom_key # "")
    /\ PastMapmyIndia =>
        (Called("mapmyindia") <=> (~Produced("tomtom") /\ mapmyindia_key # ""))
    /\ PastSimulation =>
        (Called("simulator") <=> (~Produced("tomtom") /\ ~Produced("mapmyindia")))

(***************************************************************************)
(* C5.  After each city and at return, api_working is true iff at least    *)
(* one emitted reading has a live source label.                            *)
(***************************************************************************)
C5_ApiWorkingIffLiveReading ==
    (pc \in {"loop", "done"}) => (api_working <=> LiveReadings # {})

C5_Witness ==
    /\ Returned /\ api_working
    /\ \E i, j \in DOMAIN results :
        /\ results[i].source = MapmyIndiaApiLabel
        /\ results[j].source = SimulatorLabel
    /\ \A i \in DOMAIN results : results[i].source # TomTomApiLabel

(***************************************************************************)
(* C6.  As claimed: the returned api_source names a live source that       *)
(* succeeded in the pass, the primary taking precedence: it is the         *)
(* primary's name whenever some city was resolved by the primary, also     *)
(* when a later city was resolved by the secondary.                        *)
(* Refuted: api_source is overwritten by every live success, so it names   *)
(* the last one.                                                           *)
(***************************************************************************)
MaxOf(S) == CHOOSE i \in S : \A j \in S : i >= j

C6_ApiSourceIsFirstLive ==
    (Returned /\ LiveReadings # {}) =>
        api_source = IF \E i \in LiveReadings : results[i].source = TomTomApiLabel
                     THEN TomTomApiLabel
                     ELSE MapmyIndiaApiLabel

(***************************************************************************)
(* C6 amended.  After each city and at return, api_source is the label of  *)
(* the last reading that a live client produced, and "None" when there is  *)
(* none.                                                                   *)
(***************************************************************************)
C6_ApiSourceIsLastLive ==
    (pc \in {"loop", "done"}) =>
        api_source = IF LiveReadings = {} THEN "None"
                     ELSE results[MaxOf(LiveReadings)].source

C6_Witness ==
    /\ Returned
    /\ Len(results) >= 2
    /\ results[1].source = TomTomApiLabel
    /\ results[2].source = MapmyIndiaApiLabel
    /\ api_source = MapmyIndiaApiLabel

(***************************************************************************)
(* C7.  With both keys empty no live client is invoked, every reading has  *)
(* the simulator's label and api_working stays false.                      *)
(***************************************************************************)
C7_NoKeysAllSimulated ==
    (tomtom_key = "" /\ mapmyindia_key = "") =>
        /\ ~Called("tomtom")
        /\ ~Called("mapmyindia")
        /\ \A i \in DOMAIN results : results[i].source = SimulatorLabel
        /\ api_working = FALSE
        /\ ~Propagated

C7_Witness ==
    /\ tomtom_key = "" /\ mapmyindia_key = ""
    /\ Returned
    /\ Len(results) = MaxCities
    /\ \A i \in DOMAIN results : results[i].source = SimulatorLabel

(***************************************************************************)
(* C8.  Every congestion value of an emitted reading, and every value a    *)
(* source hands to the loop, is a number between 0 and 100 (0 .. 1000      *)
(* tenths).                                                                *)
(***************************************************************************)
InRange(c) == IsNum(c) /\ 0 <= c.num /\ c.num <= 1000

C8_CongestionInRange ==
    /\ \A i \in DOMAIN results : InRange(results[i].congestion)
    /\ congestion # None => InRange(congestion)

(* Two primary readings whose raw percentage lies outside 0 .. 100: one    *)
(* with a negative current speed (120 %), one with the current speed above *)
(* the free-flow speed (-20 %).                                            *)
C8_Witness ==
    /\ Len(results) = 2
    /\ results[1].source = TomTomApiLabel
    /\ results[1].current_speed.num < 0
    /\ results[1].congestion = Num(1000)
    /\ results[2].source = TomTomApiLabel
    /\ results[2].current_speed.num > results[2].free_flow_speed.num
    /\ results[2].congestion = Num(0)

(***************************************************************************)
(* C9.  As claimed: every emitted reading has a non-empty label, and for a *)
(* city whose live sources failed the emitted label tells which failure    *)
(* occurred: it is one of the failure labels the clients returned.         *)
(* Refuted: the failure label is overwritten by the next source before the *)
(* reading is built.                                                       *)
(***************************************************************************)
LiveSourcesFailed ==
    /\ Called("tomtom") \/ Called("mapmyindia")
    /\ ~Produced("tomtom")
    /\ ~Produced("mapmyindia")

C9_LabelEncodesFailure ==
    /\ \A i \in DOMAIN results : results[i].source # ""
    /\ (Emitted /\ LiveSourcesFailed) => Last.source \in FailureLabels

(***************************************************************************)
(* C9 amended.  Every emitted reading has a non-empty label; for a city    *)
(* whose live sources failed the label is the simulator's, whatever the    *)
(* failures were, so the emitted label does not tell them apart.           *)
(***************************************************************************)
C9_FailureLabelReplaced ==
    /\ \A i \in DOMAIN results : results[i].source # ""
    /\ (Emitted /\ LiveSourcesFailed) =>
        /\ Last.source = SimulatorLabel
        /\ Last.source \notin FailureLabels

C9_Witness ==
    /\ Emitted /\ LiveSourcesFailed
    /\ FailureLabels = {"TomTom Rate Limited", "MapmyIndia Auth Failed"}
    /\ Last.source = SimulatorLabel

(***************************************************************************)
(* C10.  Every pass terminates with every city resolved: the call either   *)
(* can take a step or has returned, and then each city has a reading from  *)
(* the primary, the secondary or the simulator.                            *)
(* Refuted: the pass can end in the TypeError of C17 with the city at hand *)
(* unresolved.                                                             *)
(***************************************************************************)
Terminal(reading) ==
    /\ reading.source \in {TomTomApiLabel, MapmyIndiaApiLabel, SimulatorLabel}
    /\ reading.congestion # None

C10_EveryCityResolved ==
    \/ ENABLED Next
    \/ /\ Returned
       /\ Len(results) = Len(city_coords)
       /\ \A i \in DOMAIN results : Terminal(results[i])

(***************************************************************************)
(* The outcome of a request, as the failure taxonomy names it.             *)
(***************************************************************************)
Reason(response) ==
    IF response.kind = "Timeout" THEN "timeout"
    ELSE IF response.kind = "ConnectionError" THEN "connection"
    ELSE IF response.kind = "Exception" THEN "error"
    ELSE IF response.status_code = 401 THEN "auth"
    ELSE IF response.status_code = 403 THEN "forbidden"
    ELSE IF response.status_code = 429 THEN "rate limited"
    ELSE IF response.status_code # 200 THEN "other status"
    ELSE "answered"

IsTuple4(r) == DOMAIN r = {"congestion", "source", "current_speed", "free_flow_speed"}
IsFailure(r) == IsTuple4(r) /\ r.congestion = None /\ r.current_speed = NA
                /\ r.free_flow_speed = NA

(* A 200 body of the primary that is not well-formed: not JSON, or without *)
(* a flowSegmentData, currentSpeed or freeFlowSpeed that is a number.      *)
TomTomMalformed(body) ==
    \/ ~body.json
    \/ body.flowSegmentData = Absent
    \/ ~IsNum(body.flowSegmentData.currentSpeed)
    \/ ~IsNum(body.flowSegmentData.freeFlowSpeed)

(***************************************************************************)
(* C11.  On a 200 answer the primary client returns a congestion value     *)
(* only for a well-formed body with a free-flow speed > 0; for a malformed *)
(* body (missing flowSegmentData, currentSpeed or freeFlowSpeed) or a      *)
(* free-flow speed <= 0 it returns a failure with congestion None.         *)
(* Refuted: a missing key is replaced by a default (0 and 1), so a body    *)
(* without flowSegmentData is reported as 100 % congestion.                *)
(***************************************************************************)
C11_MalformedIsFailure ==
    (Applied("tomtom") /\ Reason(probe.input) = "answered") =>
        LET body == probe.input.body IN
        IF TomTomMalformed(body) \/ body.flowSegmentData.freeFlowSpeed.num <= 0
        THEN IsFailure(probe.out)
        ELSE probe.out.congestion # None /\ probe.out.source = TomTomApiLabel

(***************************************************************************)
(* C12.  For every outcome other than a 200 answer the primary client      *)
(* returns a failure (congestion None, speeds "N/A") whose label names the *)
(* reason: 401, 403, 429, another status, timeout, connection error, other *)
(* exception.                                                              *)
(***************************************************************************)
C12_PrimaryFailureLabels ==
    (Applied("tomtom") /\ Reason(probe.input) # "answered") =>
        /\ IsFailure(probe.out)
        /\ probe.out.source =
            CASE Reason(probe.input) = "auth" -> "TomTom Auth Failed"
              [] Reason(probe.input) = "forbidden" -> "TomTom Forbidden"
              [] Reason(probe.input) = "rate limited" -> "TomTom Rate Limited"
              [] Reason(probe.input) = "other status" -> "TomTom Failed"
              [] Reason(probe.input) = "timeout" -> "TomTom Timeout"
              [] Reason(probe.input) = "connection" -> "TomTom Connection Failed"
              [] Reason(probe.input) = "error" -> "TomTom Error"

C12_Witness ==
    /\ Applied("tomtom")
    /\ Reason(probe.input) = "forbidden"
    /\ probe.out = Failure("TomTom Forbidden")

(* A 200 body of the secondary that gives no usable route. *)
MapmyIndiaMalformed(body) ==
    \/ ~body.json
    \/ body.routes = Absent
    \/ body.routes.list = <<>>
    \/ Get(body.routes.list[1].distance, Num(1)).num <= 0
    \/ Get(body.routes.list[1].duration, Num(0)).num <= 0

(* The reason of a failed request of the secondary, "none" for a success. *)
MapmyIndiaReason(response) ==
    IF Reason(response) # "answered" THEN Reason(response)
    ELSE IF MapmyIndiaMalformed(response.body) THEN "malformed"
    ELSE "none"

C17_SecondaryReturnsTuple ==
    Applied("mapmyindia") =>
        /\ IsTuple4(probe.out)
        /\ MapmyIndiaReason(probe.input) = "malformed" => IsFailure(probe.out)

(***************************************************************************)
(* C15.  For a free-flow speed > 0 the congestion of the live clients is   *)
(* clamp((1 - currentSpeed/freeFlowSpeed) * 100, 0, 100) rounded to one    *)
(* decimal: a nearest tenth of the clamped value.  Equal speeds give 0, a  *)
(* current speed of 0 gives 100, 25 over 50 gives 50.0, and rounding       *)
(* before clamping (the code) equals clamping before rounding.             *)
(***************************************************************************)
Abs(x) == IF x < 0 THEN -x ELSE x

(* out is a nearest integer to num/den; den > 0. *)
Nearest(out, num, den) == 2 * Abs(out * den - num) <= den

(* num/den clamped to 0 .. 1000, over the same den. *)
ClampedNum(num, den) == Max(0, Min(1000 * den, num))

C15_CongestionFormula ==
    /\ Applied("speeds") =>
        LET c == probe.input.current_speed
            f == probe.input.free_flow_speed
            exact == ClampedNum(1000 * (f - c), f)    \* over f
        IN  /\ Nearest(probe.out, exact, f)
            /\ probe.out = Round(exact, f)
            /\ c = f => probe.out = 0
            /\ c = 0 => probe.out = 1000
            /\ (c = 25 /\ f = 50) => probe.out = 500
    /\ Applied("route") =>
        LET d == probe.input.distance
            t == probe.input.duration
            exact == ClampedNum(1000 * t - 72 * d, t)   \* over t
        IN  /\ Nearest(probe.out, exact, t)
            /\ probe.out = Round(exact, t)

C15_Witness ==
    /\ Applied("speeds")
    /\ probe.input.current_speed = 25
    /\ probe.input.free_flow_speed = 50
    /\ probe.out = 500

(***************************************************************************)
(* C14.  Two calls of the simulator for the same city whose clock readings *)
(* fall in the same hour and in the same class of day (weekend or not)     *)
(* return the same tuple.                                                  *)
(***************************************************************************)
Weekend(now) == now.day_of_week \in {5, 6}
SameSlot(now, later) == now.hour = later.hour /\ Weekend(now) = Weekend(later)

C14_SimulatorDeterministic ==
    (Applied("simulator") /\ SameSlot(probe.input.now, probe.input.later)) =>
        probe.out.first = probe.out.second

C14_Witness ==
    /\ Applied("simulator")
    /\ probe.input.city.name = "Mumbai"
    /\ probe.input.now = Now(5, 18, 0)
    /\ probe.input.later = Now(6, 18, 59)
    /\ probe.out.first = probe.out.second
    /\ probe.out.first.congestion = Num(830)

(***************************************************************************)
(* C18.  As claimed: for every city and every latitude and longitude,      *)
(* negative ones included, the seed is the sum of the character codes plus *)
(* floor(lat*100) plus floor(lon*100), and the base congestion is in       *)
(* 20 .. 59.                                                               *)
(* Refuted: int() cuts toward zero, which is not the floor of a negative   *)
(* value that is not whole.                                                *)
(***************************************************************************)
C18_SeedUsesFloor ==
    Applied("simulator") =>
        LET city == probe.input.city IN
        /\ probe.out.seed = SumOrd(city.ord) + (city.lat \div 100) + (city.lon \div 100)
        /\ probe.out.base_congestion = (probe.out.seed % 40) + 20
        /\ probe.out.base_congestion \in 20 .. 59

(***************************************************************************)
(* C18 amended.  The seed is the sum of the character codes plus lat*100   *)
(* and lon*100 each cut toward zero (the floor for a value >= 0, the       *)
(* ceiling for a negative one), and the base congestion (seed mod 40) + 20 *)
(* is in 20 .. 59, for a negative seed too.                                *)
(***************************************************************************)
(* a is x/100 cut toward zero. *)
CutTowardZero(a, x) ==
    IF x >= 0 THEN 100 * a <= x /\ x < 100 * (a + 1)
    ELSE 100 * (a - 1) < x /\ x <= 100 * a

C18_SeedCutsTowardZero ==
    Applied("simulator") =>
        LET city == probe.input.city IN
        /\ \E a \in {city.lat \div 100, (city.lat \div 100) + 1},
              b \in {city.lon \div 100, (city.lon \div 100) + 1} :
            /\ CutTowardZero(a, city.lat)
            /\ CutTowardZero(b, city.lon)
            /\ probe.out.seed = SumOrd(city.ord) + a + b
        /\ (probe.out.seed - (probe.out.base_congestion - 20)) % 40 = 0
        /\ probe.out.base_congestion \in 20 .. 59

C18_Witness ==
    /\ Applied("simulator")
    /\ probe.input.city.name = "Lima"
    /\ probe.out.seed = 387 - 1204 - 7704
    /\ probe.out.base_congestion = 59

(***************************************************************************)
(* C19.  For every hour and weekday the simulator takes one rush factor    *)
(* and one weekend factor: 1.5 for the hours 7..10, 1.6 for 17..20, 1.2    *)
(* for 11..16, 0.8 for 0..6 and 21..23; 0.7 on Saturday and Sunday, 1.0 on *)
(* the other days; the city factor is the table's for a listed city and    *)
(* 1.0 for any other.                                                      *)
(***************************************************************************)
C19_Factors ==
    Applied("simulator") =>
        LET hour == probe.input.now.hour
            day == probe.input.now.day_of_week
            name == probe.input.city.name
        IN  /\ hour \in 7 .. 10 => probe.out.rush_factor = 15
            /\ hour \in 17 .. 20 => probe.out.rush_factor = 16
            /\ hour \in 11 .. 16 => probe.out.rush_factor = 12
            /\ hour \in (0 .. 6) \cup (21 .. 23) => probe.out.rush_factor = 8
            /\ day \in {5, 6} => probe.out.weekend_factor = 7
            /\ day \in 0 .. 4 => probe.out.weekend_factor = 10
            /\ name \in DOMAIN city_factors => probe.out.city_factor = city_factors[name]
            /\ name \notin DOMAIN city_factors => probe.out.city_factor = 100

C19_Witness ==
    /\ Applied("simulator")
    /\ probe.input.city.name = "Kolhapur"
    /\ probe.input.now = Now(6, 10, 0)
    /\ probe.out.rush_factor = 15
    /\ probe.out.weekend_factor = 7
    /\ probe.out.city_factor = 100

(***************************************************************************)
(* C16.  No live client is asked twice for one city: among the calls made  *)
(* for a city the primary appears at most once and the secondary at most   *)
(* once, so the calls of a pass number at most one per client per city     *)
(* begun, hence at most n of each for n cities.                            *)
(***************************************************************************)
CallsTo(client) == Cardinality({k \in DOMAIN attempts : attempts[k].client = client})

(* The cities whose resolution has begun. *)
Begun == IF pc \in {"loop", "done"} THEN idx - 1 ELSE idx

C16_NoRetry ==
    /\ CallsTo("tomtom") <= 1
    /\ CallsTo("mapmyindia") <= 1
    /\ calls.tomtom <= Begun
    /\ calls.mapmyindia <= Begun
    /\ Begun <= Len(city_coords)

C16_Witness ==
    /\ Returned
    /\ Len(city_coords) = 2
    /\ calls.tomtom = 2
    /\ calls.mapmyindia = 2
    /\ attempts[1].client = "tomtom"
    /\ attempts[1].result.congestion = None
    /\ attempts[2].client = "mapmyindia"
    /\ attempts[2].result.congestion = None

(***************************************************************************)
(* C20.  The reading emitted for a city is made of that city's name and    *)
(* coordinates and of the tuple the last source asked for that city        *)
(* returned; the working values are None, "Unknown", "N/A", "N/A" whenever *)
(* a city's resolution starts; and the list always holds exactly the       *)
(* readings of the cities done, each under its own name and coordinates:   *)
(* between cities only api_working and api_source carry over.              *)
(***************************************************************************)
(* One hour of each band of the day and one day of each class. *)
Slots == {[hour |-> h, day_of_week |-> d] : h \in {0, 7, 11, 17}, d \in {0, 5}}

OwnOutcome ==
    LET city == city_coords[idx - 1]
        own == attempts[Len(attempts)]
    IN  /\ attempts # <<>>
        /\ Last = [city |-> city.name, lat |-> city.lat, lon |-> city.lon,
                   congestion |-> own.result.congestion,
                   source |-> own.result.source,
                   current_speed |-> own.result.current_speed,
                   free_flow_speed |-> own.result.free_flow_speed]
        /\ own.client = "simulator" =>
            \E now \in Slots :
                own.result = get_simulated_congestion(city, now.hour, now.day_of_week)

StartsClean ==
    pc = "tomtom" =>
        /\ attempts = <<>>
        /\ congestion = None
        /\ source = "Unknown"
        /\ current_speed = NA
        /\ free_flow_speed = NA

(* The list holds one reading for each city done, under that city's name. *)
EarlierReadingsKept ==
    /\ Len(results) = idx - 1
    /\ \A i \in DOMAIN results :
        /\ results[i].city = city_coords[i].name
        /\ results[i].lat = city_coords[i].lat
        /\ results[i].lon = city_coords[i].lon

C20_CitiesIndependent ==
    /\ Emitted => OwnOutcome
    /\ StartsClean
    /\ EarlierReadingsKept

C20_Witness ==
    /\ Returned
    /\ Len(results) = 2
    /\ results[1].source = TomTomApiLabel
    /\ results[1].congestion = Num(1000)
    /\ results[2].source = SimulatorLabel
    /\ results[2].current_speed # NA
    /\ api_working
    /\ api_source = TomTomApiLabel

(***************************************************************************)
(* C21.  normalize_congestion returns a value in [0, 1]; the value is      *)
(* congestion/100 for a congestion in [0, 100], 0 for a negative one and 1 *)
(* for one above 100; and of two congestions the greater never gets the    *)
(* smaller value.                                                          *)
(***************************************************************************)
(* The fraction x is n/d. *)
Is(x, n, d) == x.num * d = n * x.den

C21_NormalizeSaturates ==
    Applied("normalize") =>
        LET c == probe.input.congestion
            v == probe.out.first
            w == probe.out.second
        IN  /\ v.den > 0
            /\ 0 <= v.num /\ v.num <= v.den
            /\ (0 <= c /\ c <= 1000) => Is(v, c, 1000)
            /\ c < 0 => Is(v, 0, 1)
            /\ c > 1000 => Is(v, 1, 1)
            /\ ~Less(w, v)

C21_Witness ==
    /\ Applied("normalize")
    /\ probe.input.congestion = -5
    /\ probe.input.other = 995
    /\ Is(probe.out.first, 0, 1)
    /\ Is(probe.out.second, 199, 200)

(***************************************************************************)
(* C22.  At every point of a pass api_source is "None" exactly when        *)
(* api_working is false, and is one of the two live labels otherwise; and  *)
(* api_working, once true, stays true: a later city whose live sources     *)
(* fail does not reset it.                                                 *)
(***************************************************************************)
AggregateConsistent ==
    /\ api_source = "None" <=> ~api_working
    /\ api_working => api_source \in LiveLabels

C22_AggregateStatus ==
    /\ []AggregateConsistent
    /\ [][api_working => api_working']_vars

C22_Witness ==
    /\ Returned
    /\ Len(results) = 2
    /\ results[1].source = MapmyIndiaApiLabel
    /\ results[2].source = SimulatorLabel
    /\ Len(attempts) = 3
    /\ attempts[1].result.source = "TomTom Failed"
    /\ attempts[2].result.source = "MapmyIndia Error"
    /\ api_working
    /\ api_source = MapmyIndiaApiLabel

(***************************************************************************)
(* C23.  No reading carries a failure marker: its congestion and its two   *)
(* speeds are numbers and its label is one of the three sources' success   *)
(* labels; the values about to be appended are already so, a failed        *)
(* client's None, "N/A" and label having been overwritten.                 *)
(***************************************************************************)
SuccessLabels == {TomTomApiLabel, MapmyIndiaApiLabel, SimulatorLabel}

NoFailureMarker(r) ==
    /\ r.congestion # None /\ IsNum(r.congestion)
    /\ r.current_speed # NA /\ IsNum(r.current_speed)
    /\ r.free_flow_speed # NA /\ IsNum(r.free_flow_speed)
    /\ r.source \in SuccessLabels

C23_NoFailureMarker ==
    /\ \A i \in DOMAIN results : NoFailureMarker(results[i])
    /\ pc = "append" =>
        NoFailureMarker(Tuple4(congestion, source, current_speed, free_flow_speed))

C23_Witness ==
    /\ Returned
    /\ Len(results) = 2
    /\ results[1].source = TomTomApiLabel
    /\ results[1].current_speed = Num(0)
    /\ results[1].free_flow_speed = Num(10)
    /\ Len(attempts) = 2
    /\ attempts[1].result = Failure("TomTom Error")
    /\ results[2].source = SimulatorLabel
    /\ NoFailureMarker(results[2])

(***************************************************************************)
(* C24.  A live client's result of exactly 0 percent is a success: the     *)
(* call that returned it is the last one made for the city, neither the    *)
(* secondary (after the primary) nor the simulator being asked; the        *)
(* reading has congestion 0 and the client's live label; and api_working   *)
(* is true, api_source being that label.                                   *)
(***************************************************************************)
LiveZero(k) ==
    /\ attempts[k].client \in {"tomtom", "mapmyindia"}
    /\ attempts[k].result # None
    /\ attempts[k].result.congestion = Num(0)

C24_ZeroIsSuccess ==
    /\ \A k \in DOMAIN attempts :
        LiveZero(k) =>
            /\ k = Len(attempts)
            /\ attempts[k].result.source \in LiveLabels
            /\ api_working
            /\ api_source = attempts[k].result.source
            /\ pc # "raised"
    /\ (Emitted /\ \E k \in DOMAIN attempts : LiveZero(k)) =>
        /\ Last.congestion = Num(0)
        /\ Last.source \in LiveLabels
        /\ Last.source = attempts[Len(attempts)].result.source
        /\ ~Called("simulator")

C24_Witness ==
    /\ Emitted
    /\ tomtom_key # "" /\ mapmyindia_key # ""
    /\ Len(attempts) = 1
    /\ LiveZero(1)
    /\ Last.congestion = Num(0)
    /\ Last.source = TomTomApiLabel
    /\ Last.current_speed = Num(600)
    /\ api_working

====
